---- MODULE Spec2Model ----
(***************************************************************************)
(* Model of the portfolio chatbot: PersonalKnowledgeBase (chunking,        *)
(* ingestion, search, refresh) over a persistent vector store,             *)
(* PortfolioChatBot (the two-round tool-calling turn, history, reset) and  *)
(* the /chat and /refresh_knowledge handlers of the API server.            *)
(*                                                                         *)
(* Conventions.  A document text is a sequence of tokens, each a word or   *)
(* the whitespace token " ".  Chat contents are strings; Python's None is  *)
(* the distinguished value None.  Distances and relevance scores are       *)
(* integers scaled by SCALE (SCALE stands for 1.0).                        *)
(*                                                                         *)
(* Specifications.  SpecChat: one engine taking turns and resets.          *)
(* SpecTurns: SpecChat without unparsable tool arguments.  SpecKB:         *)
(* knowledge-base clients over the shared store.  SpecServer: the handlers *)
(* on the event loop of the server.  SpecIngest: builds over folders whose *)
(* file names stress the chunk ids.  SpecChunk: calls of _chunk_text.      *)
(***************************************************************************)
EXTENDS Integers, Sequences, FiniteSets, TLC

\* ---------------------------------------------------------------- bounds
MaxClock == 4          \* Message objects created after the initial state
MaxSessions == 2       \* knowledge-base clients sharing ./chroma_db
MaxCollections == 3    \* collections ever created in the store
MaxTopK == 2           \* largest top_k of a direct search
MaxRequests == 3       \* requests sent to the server to the server
MaxWords == 960        \* words of a text chunked with the default parameters
MaxShortWords == 6     \* words of a text chunked with small parameters
MaxChunkSize == 4      \* largest small chunk_size
MaxOverlap == 5        \* largest small overlap
MaxDocs == 4           \* files of a folder that stresses the chunk ids

\* ------------------------------------------------------ program constants
HISTORY_WINDOW == 10
TOP_K == 3
CHUNK_SIZE == 500
OVERLAP == 50
SCALE == 100

None == "<None>"
SYSTEM_PROMPT == "You are Glory's AI Personal Assistant"
SEARCH_TOOL == "search_knowledge_base"
NoCollection == 0

Sessions == 1 .. MaxSessions
Requests == 1 .. MaxRequests

Min(a, b) == IF a < b THEN a ELSE b
Max(a, b) == IF a > b THEN a ELSE b

\* ------------------------------------------------------------- Chunker
IsSpace(tok) == tok = " "

\* str.split(): the words of a text, whitespace dropped
Split(text) == SelectSeq(text, LAMBDA tok : ~IsSpace(tok))

\* bool(text.strip()): the text holds something besides whitespace
StripTruthy(text) == \E i \in 1 .. Len(text) : ~IsSpace(text[i])

\* " ".join(words)
Join(words) ==
    [j \in 1 .. 2 * Len(words) - 1 |->
        IF j % 2 = 1 THEN words[(j + 1) \div 2] ELSE " "]

\* a slice that stops one word early
PySliceShort(words, i, n) == SubSeq(words, i + 1, Min(Len(words), i + n - 1))

\* words[i : i + n] with a 0-based start i, clipped at the end of the list
PySlice(words, i, n) == SubSeq(words, i + 1, Min(Len(words), i + n))

\* list(range(0, stop, step)) for step > 0
RECURSIVE PyRange(_, _, _)
PyRange(start, stop, step) ==
    IF start >= stop THEN <<>>
    ELSE <<start>> \o PyRange(start + step, stop, step)

RECURSIVE ChunkLoop(_, _, _)
ChunkLoop(words, starts, chunk_size) ==
    IF starts = <<>> THEN <<>>
    ELSE LET chunk == Join(PySlice(words, Head(starts), chunk_size))
             rest == ChunkLoop(words, Tail(starts), chunk_size)
         IN IF StripTruthy(chunk) THEN <<chunk>> \o rest ELSE rest

\* range(0, n, 0) raises ValueError
ChunkRaises(chunk_size, overlap) == chunk_size - overlap = 0

\* chunks that do not overlap: the loop advances by chunk_size
ChunkTextStride(text, chunk_size, overlap) ==
    LET words == Split(text)
    IN IF chunk_size <= 0 THEN <<>>
       ELSE ChunkLoop(words, PyRange(0, Len(words), chunk_size), chunk_size)

\* _chunk_text when it does not raise; a negative step is an empty range
ChunkText(text, chunk_size, overlap) ==
    LET words == Split(text)
        step == chunk_size - overlap
    IN IF step <= 0 THEN <<>>
       ELSE ChunkLoop(words, PyRange(0, Len(words), step), chunk_size)

\* ------------------------------------------------------------ documents
DocResume == [stem |-> "resume", suffix |-> ".txt",
              text |-> <<"python", " ", "go", " ", "skills">>]
DocBio == [stem |-> "bio", suffix |-> ".md", text |-> <<"glory", " ", "skills">>]
DocBlank == [stem |-> "notes", suffix |-> ".txt", text |-> <<" ", " ">>]
DocHobby == [stem |-> "hobby", suffix |-> ".txt", text |-> <<"chess">>]

\* contents the about_me folder can have, in rglob order
Corpora == { <<DocBlank>>, <<DocResume, DocBio>>,
             <<DocBlank, DocBio, DocHobby, DocBio>> }

FileName(doc) == doc.stem \o doc.suffix

\* an id without the document number
DocIdNoCount(stem, doc_count, i) == stem \o "_chunk_" \o ToString(i)

DocId(stem, doc_count, i) ==
    stem \o "_chunk_" \o ToString(doc_count) \o "_" \o ToString(i)

\* the entries one document contributes, given the running doc_count
DocEntries(doc, doc_count) ==
    LET chunks == ChunkText(doc.text, CHUNK_SIZE, OVERLAP)
    IN [i \in 1 .. Len(chunks) |->
          [id |-> DocId(doc.stem, doc_count, i - 1),
           document |-> chunks[i],
           metadata |-> [source |-> FileName(doc), chunk_index |-> i - 1,
                         file_type |-> doc.suffix]]]

\* the batch _load_documents collects: empty documents are skipped and do
\* not advance doc_count
RECURSIVE CollectBatch(_, _)
CollectBatch(docs, doc_count) ==
    IF docs = <<>> THEN <<>>
    ELSE IF ~StripTruthy(Head(docs).text) THEN CollectBatch(Tail(docs), doc_count)
    ELSE DocEntries(Head(docs), doc_count) \o CollectBatch(Tail(docs), doc_count + 1)

\* ------------------------------------------------- vector store backend
Words(text) == { text[i] : i \in 1 .. Len(text) } \ {" "}

\* distance between the embeddings of two texts (scaled; may exceed SCALE)
Distance(a, b) ==
    Cardinality((Words(a) \ Words(b)) \cup (Words(b) \ Words(a))) * (SCALE \div 2)

\* index of the entry nearest to the query, the earliest on ties
NearestIndex(entries, q) ==
    CHOOSE i \in 1 .. Len(entries) :
        \A j \in 1 .. Len(entries) :
            \/ Distance(q, entries[i].document) < Distance(q, entries[j].document)
            \/ /\ Distance(q, entries[i].document) = Distance(q, entries[j].document)
               /\ i <= j

RemoveAt(seq, i) == SubSeq(seq, 1, i - 1) \o SubSeq(seq, i + 1, Len(seq))

\* the first n entries in insertion order, whatever their distance
NearestInOrder(entries, q, n) == SubSeq(entries, 1, Min(n, Len(entries)))

\* collection.query(query_texts=[q], n_results=n): the n nearest entries,
\* fewer when the collection holds fewer
RECURSIVE Nearest(_, _, _)
Nearest(entries, q, n) ==
    IF n <= 0 \/ entries = <<>> THEN <<>>
    ELSE LET i == NearestIndex(entries, q)
         IN <<entries[i]>> \o Nearest(RemoveAt(entries, i), q, n - 1)

\* collection.query raises: the backend fails, or the handle names a
\* collection that has been deleted from the store
QueryRaises(handle, liveId, fails) == fails \/ handle # liveId

\* a query string is a single word
QueryText(query) == <<query>>

\* the body of PersonalKnowledgeBase.search inside its try block
SearchTry(handle, liveId, entries, fails, query, top_k) ==
    IF QueryRaises(handle, liveId, fails) THEN [raised |-> TRUE, results |-> <<>>]
    ELSE LET q == QueryText(query)
             hits == Nearest(entries, q, top_k)
         IN [raised |-> FALSE,
             results |-> [i \in 1 .. Len(hits) |->
                            [content |-> hits[i].document,
                             source |-> hits[i].metadata.source,
                             relevance_score |->
                                 SCALE - Distance(q, hits[i].document)]]]

\* search without its try/except
SearchUncaught(handle, liveId, entries, fails, query, top_k) ==
    SearchTry(handle, liveId, entries, fails, query, top_k)

\* PersonalKnowledgeBase.search: any exception of the body becomes []
Search(handle, liveId, entries, fails, query, top_k) ==
    LET attempt == SearchTry(handle, liveId, entries, fails, query, top_k)
    IN IF attempt.raised THEN [raised |-> FALSE, results |-> <<>>] ELSE attempt

\* ------------------------------------------------------------ tool layer
RECURSIVE Render(_)
Render(text) == IF text = <<>> THEN "" ELSE Head(text) \o Render(Tail(text))

RECURSIVE JoinContext(_)
JoinContext(results) ==
    IF results = <<>> THEN ""
    ELSE LET r == Head(results)
             piece == "[From " \o r.source \o "]\n" \o Render(r.content)
         IN IF Len(results) = 1 THEN piece
            ELSE piece \o "\n\n" \o JoinContext(Tail(results))

\* argument texts the model service can send with a tool call (ARGS_XYZ only
\* with a second call of the same response)
ARGS_SKILLS == "{\"query\":\"skills\"}"
ARGS_XYZ == "{\"query\":\"xyz\"}"
ARGS_EMPTY == "{}"
ARGS_BAD == "{\"query\":"
ArgTexts == {ARGS_SKILLS, ARGS_EMPTY, ARGS_BAD}

EmptyDict == [k \in {} |-> ""]

\* json.loads raises on malformed text
LoadsRaises(text) == text = ARGS_BAD

\* json.loads
Loads(text) ==
    CASE text = ARGS_SKILLS -> [query |-> "skills"]
      [] text = ARGS_XYZ -> [query |-> "xyz"]
      [] OTHER -> EmptyDict

\* json.dumps of an argument dict (default separators)
Dumps(args) ==
    IF "query" \in DOMAIN args THEN "{\"query\": \"" \o args.query \o "\"}" ELSE "{}"

\* json.dumps of a tool result
DumpsResult(result) == ToString(result)

\* PortfolioChatBot._get_tools
GetTools == <<SEARCH_TOOL>>

\* _execute_function raises KeyError when the search arguments lack "query"
ExecuteRaises(function_name, arguments) ==
    function_name = SEARCH_TOOL /\ "query" \notin DOMAIN arguments

\* the index queries _execute_function makes
ExecuteQueries(function_name, arguments) ==
    IF function_name = SEARCH_TOOL /\ "query" \in DOMAIN arguments
    THEN <<[query |-> arguments.query, top_k |-> TOP_K]>> ELSE <<>>

\* _execute_function without the final return: an unknown name falls into
\* the search branch
ExecuteFunctionNoFallback(function_name, results) ==
    IF results # <<>>
    THEN [success |-> TRUE,
          context |-> JoinContext(results),
          sources |-> [i \in 1 .. Len(results) |-> results[i].source],
          num_results |-> Len(results)]
    ELSE [success |-> FALSE,
          message |-> "No relevant information found in knowledge base"]

\* a search tool that reports success whatever the search returned
ExecuteFunctionAlwaysSuccess(function_name, results) ==
    IF function_name = SEARCH_TOOL
    THEN [success |-> TRUE, context |-> JoinContext(results),
          sources |-> [i \in 1 .. Len(results) |-> results[i].source],
          num_results |-> Len(results)]
    ELSE [error |-> "Unknown function: " \o function_name]

\* PortfolioChatBot._execute_function, given what search returned
ExecuteFunction(function_name, results) ==
    IF function_name = SEARCH_TOOL
    THEN IF results # <<>>
         THEN [success |-> TRUE,
               context |-> JoinContext(results),
               sources |-> [i \in 1 .. Len(results) |-> results[i].source],
               num_results |-> Len(results)]
         ELSE [success |-> FALSE,
               message |-> "No relevant information found in knowledge base"]
    ELSE [error |-> "Unknown function: " \o function_name]

\* ------------------------------------------------------- conversation
Message(role, content, timestamp) ==
    [role |-> role, content |-> content, timestamp |-> timestamp]

\* {"role": msg.role, "content": msg.content}
AsDict(msg) == [role |-> msg.role, content |-> msg.content]

\* seq[:n], the window taken from the wrong end
PyFirst(seq, n) == SubSeq(seq, 1, Min(n, Len(seq)))

\* seq[-n:]
PyLast(seq, n) == SubSeq(seq, Max(Len(seq) - n, 0) + 1, Len(seq))

\* messages = [system] + conversation_history[-10:]
ComposeMessages(prompt, history) ==
    LET window == PyLast(history, HISTORY_WINDOW)
    IN <<[role |-> "system", content |-> prompt]>>
       \o [i \in 1 .. Len(window) |-> AsDict(window[i])]

\* the tool message placed before the assistant's tool-call message
ToolMessagesSwapped(assistant_message, function_name, function_args, function_result) ==
    LET tool_call == assistant_message.tool_calls[1]
    IN << [role |-> "tool",
           tool_call_id |-> tool_call.id,
           content |-> DumpsResult(function_result)],
          [role |-> "assistant",
           content |-> assistant_message.content,
           tool_calls |-> << [id |-> tool_call.id, type |-> "function",
                              function |-> [name |-> function_name,
                                            arguments |-> Dumps(function_args)]] >>] >>

\* every requested tool call echoed to round 2, not only the first
ToolMessagesAllCalls(assistant_message, function_name, function_args, function_result) ==
    LET tool_call == assistant_message.tool_calls[1]
    IN << [role |-> "assistant",
           content |-> assistant_message.content,
           tool_calls |->
              [i \in 1 .. Len(assistant_message.tool_calls) |->
                  [id |-> assistant_message.tool_calls[i].id, type |-> "function",
                   function |-> [name |-> assistant_message.tool_calls[i].name,
                                 arguments |->
                                    assistant_message.tool_calls[i].arguments]]]],
          [role |-> "tool",
           tool_call_id |-> tool_call.id,
           content |-> DumpsResult(function_result)] >>

\* the two messages chat adds to the context after running a tool
ToolMessages(assistant_message, function_name, function_args, function_result) ==
    LET tool_call == assistant_message.tool_calls[1]
    IN << [role |-> "assistant",
           content |-> assistant_message.content,
           tool_calls |-> << [id |-> tool_call.id, type |-> "function",
                              function |-> [name |-> function_name,
                                            arguments |-> Dumps(function_args)]] >>],
          [role |-> "tool",
           tool_call_id |-> tool_call.id,
           content |-> DumpsResult(function_result)] >>

\* ChatResponse(response=...) validates: response must be a str
ResponseValid(value) == value # None

\* ---------------------------------------------------------------- state
VARIABLES
    chat_sessions,          \* api_server.chat_sessions: the session ids in use
    conversation_history,   \* [s] PortfolioChatBot.conversation_history
    system_prompt,          \* [s] PortfolioChatBot.system_prompt
    collection,             \* [s] PersonalKnowledgeBase.collection: id it names
    live,                   \* id of the stored collection "glory_portfolio", 0: none
    content,                \* entries of the stored collection
    next_id,                \* id the store gives the next collection it creates
    folder,                 \* documents in the about_me folder
    kb_pc,                  \* [s] position inside __init__ / refresh_knowledge_base
    kb_error,               \* [s] whether the last knowledge-base operation raised
    old_entries,            \* entries the store held when the last refresh began
    last_query,             \* the search call that has just returned, if any
    frame,                  \* [s] the locals of the chat() call of session s
    wire,                   \* [s] what the turn sent to its collaborators
    outcome,                \* [s] how chat() and the /chat handler ended
    recent,                 \* [s] the last two operations on the engine
    clock,                  \* Message objects created so far
    loop,                   \* the request whose handler the event loop runs, 0: none
    http,                   \* [r] the /chat requests sent to the server
    chunk_args,             \* the arguments of a _chunk_text call
    chunk_ret               \* how that call ended

vars == <<chat_sessions, conversation_history, system_prompt, collection, live,
          content, next_id, folder, kb_pc, kb_error, old_entries, last_query,
          frame, wire, outcome, recent, clock, loop, http, chunk_args,
          chunk_ret>>

kbVars == <<collection, live, content, next_id, folder, kb_pc, kb_error,
            old_entries, last_query>>
chatVars == <<conversation_history, system_prompt, frame, wire, outcome,
              recent, clock>>
serverVars == <<chat_sessions, loop, http>>
chunkVars == <<chunk_args, chunk_ret>>

\* ------------------------------------------------------------------ inputs
UserMessages == {"Hello", "What are Glory's skills?"}
Contents == {None, "", "Hi there!"}
ToolNames == {SEARCH_TOOL, "get_weather"}
Queries == {"skills", "xyz"}

ToolCalls == [id : {"call_1"}, name : ToolNames, arguments : ArgTexts]
ExtraCalls == { [id |-> "call_2", name |-> SEARCH_TOOL, arguments |-> ARGS_XYZ] }

\* the tool_calls a round-1 response can carry
ToolCallLists ==
    {<<>>} \cup { <<tc>> : tc \in ToolCalls }
           \cup { <<tc, ex>> : tc \in ToolCalls, ex \in ExtraCalls }

Replies == [content : Contents, tool_calls : ToolCallLists]

\* histories of n completed turns the engine can hold when the model starts
PriorTurns == {0, 4, 15}
Prior(n) ==
    [i \in 1 .. 2 * n |->
        IF i % 2 = 1
        THEN Message("user", "question " \o ToString((i + 1) \div 2), i - 2 * n)
        ELSE Message("assistant", "answer " \o ToString(i \div 2), i - 2 * n)]

ChatCorpora == { <<>>, <<DocBlank, DocBio>>,
                 <<DocResume, DocBio, DocHobby, DocBio>> }

IdleFrame ==
    [pc |-> "idle", user_message |-> None, before |-> <<>>, messages |-> <<>>,
     assistant_message |-> [content |-> None, tool_calls |-> <<>>],
     function_name |-> None, results |-> <<>>, function_result |-> EmptyDict,
     final_content |-> None]
NoWire == [requests |-> <<>>, responses |-> <<>>, trace |-> <<>>, queries |-> <<>>]
NoRecent == [prev |-> "none", last |-> "none", dropped |-> 0]
NoOutcome == [kind |-> "none", value |-> None, status |-> 0, response |-> None]
NoQuery == [top_k |-> 0, failed |-> FALSE, stale |-> FALSE, seen |-> <<>>,
            raised |-> FALSE, results |-> <<>>]

NoSessionId == 0
NoRequest == [stage |-> "none", path |-> "none", session_id |-> NoSessionId,
              message |-> None, session |-> 0, handle |-> NoCollection,
              status |-> 0]
NoChunkArgs == [text |-> <<>>, chunk_size |-> CHUNK_SIZE, overlap |-> OVERLAP]
NoChunkRet == [state |-> "none", chunks |-> <<>>]

\* no request has been sent to the server
ServerIdle == loop = 0 /\ http = [r \in Requests |-> NoRequest]

\* _chunk_text is not being called on its own
ChunkerIdle == chunk_args = NoChunkArgs /\ chunk_ret = NoChunkRet

\* ----------------------------------------------------------------- Init
\* one session whose engine and knowledge base have been constructed over
\* a built store
InitChat ==
    /\ chat_sessions = {1}
    /\ \E n \in PriorTurns :
          conversation_history = [s \in Sessions |-> IF s = 1 THEN Prior(n) ELSE <<>>]
    /\ system_prompt = [s \in Sessions |-> IF s = 1 THEN SYSTEM_PROMPT ELSE None]
    /\ folder \in ChatCorpora
    /\ live = 1
    /\ content = CollectBatch(folder, 0)
    /\ next_id = 2
    /\ collection = [s \in Sessions |-> IF s = 1 THEN 1 ELSE NoCollection]
    /\ kb_pc = [s \in Sessions |-> IF s = 1 THEN "idle" ELSE "none"]
    /\ kb_error = [s \in Sessions |-> FALSE]
    /\ old_entries = <<>>
    /\ last_query = NoQuery
    /\ frame = [s \in Sessions |-> IdleFrame]
    /\ wire = [s \in Sessions |-> NoWire]
    /\ outcome = [s \in Sessions |-> NoOutcome]
    /\ recent = [s \in Sessions |-> NoRecent]
    /\ clock = 0
    /\ ServerIdle
    /\ ChunkerIdle

\* ------------------------------------------------- PortfolioChatBot.chat
\* the exception swallowed: an apology is stored and returned as the answer
RaisedSwallowed(s, error) ==
    /\ conversation_history' =
          [conversation_history EXCEPT
              ![s] = Append(@, Message("assistant", error, clock + 1))]
    /\ clock' = clock + 1
    /\ frame' = [frame EXCEPT ![s].pc = "idle"]
    /\ outcome' = [outcome EXCEPT ![s] =
                      [kind |-> "return", value |-> error,
                       status |-> 200, response |-> error]]

\* an exception leaves chat(); the /chat handler turns it into a 500
Raised(s, error) ==
    /\ frame' = [frame EXCEPT ![s].pc = "idle"]
    /\ outcome' = [outcome EXCEPT ![s] =
                      [kind |-> "raise", value |-> error,
                       status |-> 500, response |-> None]]
    /\ UNCHANGED <<conversation_history, clock>>

\* the round-1 content stored in history instead of the final content
ReturnedRound1Content(s, fr, final_content) ==
    /\ conversation_history' =
          [conversation_history EXCEPT
              ![s] = Append(@, Message("assistant", fr.assistant_message.content,
                                       clock + 1))]
    /\ clock' = clock + 1
    /\ frame' = [frame EXCEPT ![s] =
                    [fr EXCEPT !.pc = "idle", !.final_content = final_content]]
    /\ outcome' = [outcome EXCEPT ![s] =
                      IF ResponseValid(final_content)
                      THEN [kind |-> "return", value |-> final_content,
                            status |-> 200, response |-> final_content]
                      ELSE [kind |-> "return", value |-> final_content,
                            status |-> 500, response |-> None]]

\* the assistant Message is stored and final_content returned; the /chat
\* handler wraps it in a ChatResponse
Returned(s, fr, final_content) ==
    /\ conversation_history' =
          [conversation_history EXCEPT
              ![s] = Append(@, Message("assistant", final_content, clock + 1))]
    /\ clock' = clock + 1
    /\ frame' = [frame EXCEPT ![s] =
                    [fr EXCEPT !.pc = "idle", !.final_content = final_content]]
    /\ outcome' = [outcome EXCEPT ![s] =
                      IF ResponseValid(final_content)
                      THEN [kind |-> "return", value |-> final_content,
                            status |-> 200, response |-> final_content]
                      ELSE [kind |-> "return", value |-> final_content,
                            status |-> 500, response |-> None]]

\* chat() up to the round-1 request
Chat(s, user_message) ==
    /\ s \in chat_sessions
    /\ frame[s].pc = "idle"
    /\ clock + 2 <= MaxClock
    /\ LET history == Append(conversation_history[s],
                             Message("user", user_message, clock + 1))
           messages == ComposeMessages(system_prompt[s], history)
       IN /\ conversation_history' = [conversation_history EXCEPT ![s] = history]
          /\ frame' = [frame EXCEPT ![s] =
                          [IdleFrame EXCEPT !.pc = "round1",
                                            !.user_message = user_message,
                                            !.before = conversation_history[s],
                                            !.messages = messages]]
          /\ wire' = [wire EXCEPT ![s] =
                         [requests |-> <<[messages |-> messages, tools |-> GetTools]>>,
                          responses |-> <<>>,
                          trace |-> <<"model">>,
                          queries |-> <<>>]]
    /\ clock' = clock + 1
    /\ outcome' = [outcome EXCEPT ![s] = NoOutcome]
    /\ recent' = [recent EXCEPT ![s] =
                      [prev |-> @.last, last |-> "chat", dropped |-> @.dropped]]
    /\ UNCHANGED <<serverVars, chunkVars, system_prompt, kbVars>>

\* the model service fails in round 1
Round1Fails(s) ==
    /\ frame[s].pc = "round1"
    /\ Raised(s, "ModelServiceFailure")
    /\ UNCHANGED <<serverVars, chunkVars, system_prompt, kbVars, wire, recent>>

\* the knowledge base searched with the user message on every turn
Round1DirectAlwaysSearch(s, reply) ==
    /\ frame[s].pc = "round1"
    /\ reply.tool_calls = <<>>
    /\ Returned(s, [frame[s] EXCEPT !.assistant_message = reply], reply.content)
    /\ wire' = [wire EXCEPT ![s].responses = Append(@, reply),
                             ![s].trace = Append(@, "search"),
                             ![s].queries = Append(@, [query |-> frame[s].user_message,
                                                       top_k |-> TOP_K])]
    /\ UNCHANGED <<serverVars, chunkVars, system_prompt, kbVars, recent>>

\* round 1 answers without a tool call
Round1Direct(s, reply) ==
    /\ frame[s].pc = "round1"
    /\ reply.tool_calls = <<>>
    /\ Returned(s, [frame[s] EXCEPT !.assistant_message = reply], reply.content)
    /\ wire' = [wire EXCEPT ![s].responses = Append(@, reply)]
    /\ UNCHANGED <<serverVars, chunkVars, system_prompt, kbVars, recent>>

\* round 1 requests a tool call whose arguments json.loads or
\* _execute_function rejects
Round1BadCall(s, reply) ==
    /\ frame[s].pc = "round1"
    /\ reply.tool_calls # <<>>
    /\ LET tool_call == reply.tool_calls[1]
       IN \/ /\ LoadsRaises(tool_call.arguments)
             /\ Raised(s, "JSONDecodeError")
             /\ wire' = [wire EXCEPT ![s].responses = Append(@, reply)]
          \/ /\ ~LoadsRaises(tool_call.arguments)
             /\ ExecuteRaises(tool_call.name, Loads(tool_call.arguments))
             /\ Raised(s, "KeyError")
             /\ wire' = [wire EXCEPT ![s].responses = Append(@, reply),
                                      ![s].trace = Append(@, "execute")]
    /\ UNCHANGED <<serverVars, chunkVars, system_prompt, kbVars, recent>>

\* round 1 requests a tool call: the first one is executed and round 2 issued
Round1ToolCall(s, reply, fails) ==
    /\ frame[s].pc = "round1"
    /\ reply.tool_calls # <<>>
    /\ LET tool_call == reply.tool_calls[1]
           function_name == tool_call.name
       IN /\ ~LoadsRaises(tool_call.arguments)
          /\ LET function_args == Loads(tool_call.arguments)
                 queries == ExecuteQueries(function_name, function_args)
                 results == IF queries = <<>> THEN <<>>
                            ELSE Search(collection[s], live, content, fails,
                                        queries[1].query, queries[1].top_k).results
                 function_result == ExecuteFunction(function_name, results)
                 messages == frame[s].messages
                             \o ToolMessages(reply, function_name, function_args,
                                             function_result)
             IN /\ ~ExecuteRaises(function_name, function_args)
                /\ frame' = [frame EXCEPT ![s] =
                                [@ EXCEPT !.pc = "round2",
                                          !.assistant_message = reply,
                                          !.function_name = function_name,
                                          !.results = results,
                                          !.function_result = function_result,
                                          !.messages = messages]]
                /\ wire' = [wire EXCEPT ![s] =
                               [requests |-> Append(@.requests,
                                                    [messages |-> messages,
                                                     tools |-> <<>>]),
                                responses |-> Append(@.responses, reply),
                                trace |-> @.trace \o <<"execute">>
                                          \o [i \in 1 .. Len(queries) |-> "search"]
                                          \o <<"model">>,
                                queries |-> @.queries \o queries]]
    /\ UNCHANGED <<serverVars, chunkVars, system_prompt, kbVars, conversation_history,
                   outcome, recent, clock>>

\* the model service fails in round 2
Round2Fails(s) ==
    /\ frame[s].pc = "round2"
    /\ Raised(s, "ModelServiceFailure")
    /\ UNCHANGED <<serverVars, chunkVars, system_prompt, kbVars, wire, recent>>

\* round 2 answers
Round2Reply(s, final_content) ==
    /\ frame[s].pc = "round2"
    /\ Returned(s, frame[s], final_content)
    /\ wire' = [wire EXCEPT ![s].responses =
                    Append(@, [content |-> final_content, tool_calls |-> <<>>])]
    /\ UNCHANGED <<serverVars, chunkVars, system_prompt, kbVars, recent>>

\* a reset that keeps the last exchange
ResetKeepsLast(s) ==
    /\ s \in chat_sessions
    /\ frame[s].pc = "idle"
    /\ conversation_history' = [conversation_history EXCEPT ![s] = PyLast(@, 2)]
    /\ recent' = [recent EXCEPT ![s] =
                      [prev |-> @.last, last |-> "reset",
                       dropped |-> Len(conversation_history[s])]]
    /\ UNCHANGED <<serverVars, chunkVars, system_prompt, kbVars, frame, wire, outcome, clock>>

\* PortfolioChatBot.reset_conversation
ResetConversation(s) ==
    /\ s \in chat_sessions
    /\ frame[s].pc = "idle"
    /\ conversation_history' = [conversation_history EXCEPT ![s] = <<>>]
    /\ recent' = [recent EXCEPT ![s] =
                      [prev |-> @.last, last |-> "reset",
                       dropped |-> Len(conversation_history[s])]]
    /\ UNCHANGED <<serverVars, chunkVars, system_prompt, kbVars, frame, wire, outcome, clock>>

NextChat ==
    \/ \E s \in Sessions, m \in UserMessages : Chat(s, m)
    \/ \E s \in Sessions : Round1Fails(s)
    \/ \E s \in Sessions, reply \in Replies : Round1Direct(s, reply)
    \/ \E s \in Sessions, reply \in Replies : Round1BadCall(s, reply)
    \/ \E s \in Sessions, reply \in Replies, fails \in BOOLEAN :
          Round1ToolCall(s, reply, fails)
    \/ \E s \in Sessions : Round2Fails(s)
    \/ \E s \in Sessions, c \in Contents : Round2Reply(s, c)
    \/ \E s \in Sessions : ResetConversation(s)

SpecChat == InitChat /\ [][NextChat]_vars

\* chat and reset_conversation calls on one engine in which a turn ends by
\* returning or by a failure of the model service, in round 1 or round 2
NextTurns ==
    \/ \E s \in Sessions, m \in UserMessages : Chat(s, m)
    \/ \E s \in Sessions : Round1Fails(s)
    \/ \E s \in Sessions, reply \in Replies : Round1Direct(s, reply)
    \/ \E s \in Sessions, reply \in Replies, fails \in BOOLEAN :
          Round1ToolCall(s, reply, fails)
    \/ \E s \in Sessions : Round2Fails(s)
    \/ \E s \in Sessions, c \in Contents : Round2Reply(s, c)
    \/ \E s \in Sessions : ResetConversation(s)

SpecTurns == InitChat /\ [][NextTurns]_vars

\* -------------------------------------------------- PersonalKnowledgeBase
\* no knowledge base has been constructed and the store holds no collection
InitKB ==
    /\ chat_sessions = {}
    /\ conversation_history = [s \in Sessions |-> <<>>]
    /\ system_prompt = [s \in Sessions |-> None]
    /\ folder \in Corpora
    /\ live = NoCollection
    /\ content = <<>>
    /\ next_id = 1
    /\ collection = [s \in Sessions |-> NoCollection]
    /\ kb_pc = [s \in Sessions |-> "none"]
    /\ kb_error = [s \in Sessions |-> FALSE]
    /\ old_entries = <<>>
    /\ last_query = NoQuery
    /\ frame = [s \in Sessions |-> IdleFrame]
    /\ wire = [s \in Sessions |-> NoWire]
    /\ outcome = [s \in Sessions |-> NoOutcome]
    /\ recent = [s \in Sessions |-> NoRecent]
    /\ clock = 0
    /\ ServerIdle
    /\ ChunkerIdle

Rebuilding == \E t \in Sessions : kb_pc[t] \in {"refresh_deleted", "refresh_created"}

\* client.create_collection: a fresh, empty collection under the name
CreateCollection(s) ==
    /\ live' = next_id
    /\ content' = <<>>
    /\ next_id' = next_id + 1
    /\ collection' = [collection EXCEPT ![s] = next_id]

\* __init__: get the stored collection, else create it and load the folder
KBInit(s) ==
    /\ kb_pc[s] = "none"
    /\ IF live # NoCollection
       THEN /\ collection' = [collection EXCEPT ![s] = live]
            /\ kb_pc' = [kb_pc EXCEPT ![s] = "idle"]
            /\ UNCHANGED <<live, content, next_id>>
       ELSE /\ next_id <= MaxCollections
            /\ CreateCollection(s)
            /\ kb_pc' = [kb_pc EXCEPT ![s] = "init_created"]
    /\ last_query' = NoQuery
    /\ UNCHANGED <<folder, kb_error, old_entries, serverVars, chunkVars, chatVars>>

HasDuplicateIds(batch) ==
    \E i, j \in 1 .. Len(batch) : i # j /\ batch[i].id = batch[j].id

\* collection.add raises: the embedding function fails, the handle names a
\* deleted collection, or two entries of the batch share an id
AddRaises(handle, liveId, batch, ok) ==
    ~ok \/ handle # liveId \/ HasDuplicateIds(batch)

\* one add per chunk: the chunks before the failing one stay in the index
LoadDocumentsPerChunk(s, ok) ==
    /\ kb_pc[s] \in {"init_created", "refresh_created"}
    /\ LET batch == CollectBatch(folder, 0)
       IN IF batch = <<>>
          THEN /\ content' = content
               /\ kb_error' = [kb_error EXCEPT ![s] = FALSE]
          ELSE IF collection[s] # live \/ HasDuplicateIds(batch)
          THEN /\ content' = content
               /\ kb_error' = [kb_error EXCEPT ![s] = TRUE]
          ELSE IF ~ok
          THEN /\ content' = content \o SubSeq(batch, 1, Len(batch) - 1)
               /\ kb_error' = [kb_error EXCEPT ![s] = TRUE]
          ELSE /\ content' = content \o batch
               /\ kb_error' = [kb_error EXCEPT ![s] = FALSE]
    /\ kb_pc' = [kb_pc EXCEPT ![s] = "idle"]
    /\ last_query' = NoQuery
    /\ UNCHANGED <<collection, live, next_id, folder, old_entries,
                   serverVars, chunkVars, chatVars>>

\* _load_documents: one batched add of every chunk of the folder
LoadDocuments(s, ok) ==
    /\ kb_pc[s] \in {"init_created", "refresh_created"}
    /\ LET batch == CollectBatch(folder, 0)
       IN IF batch = <<>>
          THEN /\ content' = content
               /\ kb_error' = [kb_error EXCEPT ![s] = FALSE]
          ELSE IF AddRaises(collection[s], live, batch, ok)
          THEN /\ content' = content
               /\ kb_error' = [kb_error EXCEPT ![s] = TRUE]
          ELSE /\ content' = content \o batch
               /\ kb_error' = [kb_error EXCEPT ![s] = FALSE]
    /\ kb_pc' = [kb_pc EXCEPT ![s] = "idle"]
    /\ last_query' = NoQuery
    /\ UNCHANGED <<collection, live, next_id, folder, old_entries,
                   serverVars, chunkVars, chatVars>>

\* refresh_knowledge_base, first step: delete_collection, errors swallowed
RefreshDelete(s) ==
    /\ kb_pc[s] = "idle"
    /\ next_id <= MaxCollections
    /\ old_entries' = content
    /\ live' = NoCollection
    /\ content' = <<>>
    /\ kb_pc' = [kb_pc EXCEPT ![s] = "refresh_deleted"]
    /\ kb_error' = [kb_error EXCEPT ![s] = FALSE]
    /\ last_query' = NoQuery
    /\ UNCHANGED <<collection, next_id, folder, serverVars, chunkVars, chatVars>>

\* refresh_knowledge_base, second step: create_collection, which raises when
\* the name is taken again
RefreshCreate(s) ==
    /\ kb_pc[s] = "refresh_deleted"
    /\ IF live # NoCollection
       THEN /\ kb_pc' = [kb_pc EXCEPT ![s] = "idle"]
            /\ kb_error' = [kb_error EXCEPT ![s] = TRUE]
            /\ UNCHANGED <<collection, live, content, next_id>>
       ELSE /\ next_id <= MaxCollections
            /\ CreateCollection(s)
            /\ kb_pc' = [kb_pc EXCEPT ![s] = "refresh_created"]
            /\ kb_error' = kb_error
    /\ last_query' = NoQuery
    /\ UNCHANGED <<folder, old_entries, serverVars, chunkVars, chatVars>>

\* a direct PersonalKnowledgeBase.search call on a constructed knowledge base;
\* last_query holds what it returned until the next step of the system
KBSearch(s, query, top_k, fails) ==
    /\ kb_pc[s] \notin {"none", "init_created"}
    /\ last_query = NoQuery
    /\ LET answer == Search(collection[s], live, content, fails, query, top_k)
       IN last_query' =
             [top_k |-> top_k, failed |-> fails,
              stale |-> collection[s] # live,
              seen |-> IF QueryRaises(collection[s], live, fails) THEN <<>>
                       ELSE content,
              raised |-> answer.raised, results |-> answer.results]
    /\ UNCHANGED <<collection, live, content, next_id, folder, kb_pc, kb_error,
                   old_entries, serverVars, chunkVars, chatVars>>

\* files are added to or removed from the about_me folder
EditFolder(docs) ==
    /\ docs # folder
    /\ folder' = docs
    /\ last_query' = NoQuery
    /\ UNCHANGED <<collection, live, content, next_id, kb_pc, kb_error,
                   old_entries, serverVars, chunkVars, chatVars>>

NextKB ==
    \/ \E s \in Sessions : KBInit(s)
    \/ \E s \in Sessions, ok \in BOOLEAN : LoadDocuments(s, ok)
    \/ \E s \in Sessions : RefreshDelete(s)
    \/ \E s \in Sessions : RefreshCreate(s)
    \/ \E s \in Sessions, q \in Queries, k \in 1 .. MaxTopK, fails \in BOOLEAN :
          KBSearch(s, q, k, fails)
    \/ \E docs \in Corpora : EditFolder(docs)

SpecKB == InitKB /\ [][NextKB]_vars

\* ------------------------------------------------------- _load_documents
\* no engine and no knowledge base exists and the store holds no collection
NothingBuilt ==
    /\ chat_sessions = {}
    /\ conversation_history = [s \in Sessions |-> <<>>]
    /\ system_prompt = [s \in Sessions |-> None]
    /\ live = NoCollection
    /\ content = <<>>
    /\ next_id = 1
    /\ collection = [s \in Sessions |-> NoCollection]
    /\ kb_pc = [s \in Sessions |-> "none"]
    /\ kb_error = [s \in Sessions |-> FALSE]
    /\ old_entries = <<>>
    /\ last_query = NoQuery
    /\ frame = [s \in Sessions |-> IdleFrame]
    /\ wire = [s \in Sessions |-> NoWire]
    /\ outcome = [s \in Sessions |-> NoOutcome]
    /\ recent = [s \in Sessions |-> NoRecent]
    /\ clock = 0

\* a text of n words w1 .. wn: gap 1 puts one space between words, gap 2
\* surrounds every word with spaces
Text(n, gap) ==
    IF gap = 1
    THEN [j \in 1 .. 2 * n - 1 |->
             IF j % 2 = 1 THEN "w" \o ToString((j + 1) \div 2) ELSE " "]
    ELSE [j \in 1 .. 3 * n |->
             IF j % 3 = 2 THEN "w" \o ToString((j + 1) \div 3) ELSE " "]

\* files whose names stress the id scheme: one stem under two suffixes, a
\* file of two chunks, an empty file, stems that look like ids
IdDocs ==
    { [stem |-> "a", suffix |-> ".txt", text |-> Text(CHUNK_SIZE - OVERLAP + 1, 1)],
      [stem |-> "a", suffix |-> ".md", text |-> <<"x">>],
      [stem |-> "a", suffix |-> ".pdf", text |-> <<" ">>],
      [stem |-> "a_chunk_0", suffix |-> ".txt", text |-> <<"y">>],
      [stem |-> "a_chunk_1_0", suffix |-> ".txt", text |-> <<"z">>] }

\* the folders of one to MaxDocs such files, in rglob order
IdCorpora ==
    UNION { [1 .. n -> IdDocs] : n \in 1 .. MaxDocs }

InitIngest ==
    /\ folder \in IdCorpora
    /\ NothingBuilt
    /\ ServerIdle
    /\ ChunkerIdle

\* knowledge bases are constructed over the folder: the first builds the index
NextIngest ==
    \/ \E s \in Sessions : KBInit(s)
    \/ \E s \in Sessions, ok \in BOOLEAN : LoadDocuments(s, ok)

SpecIngest == InitIngest /\ [][NextIngest]_vars

\* ------------------------------------------------------------ API server
\* the requests clients have sent: /chat with no session id or naming the
\* first session the server hands out, and /refresh_knowledge
WaitingRequests ==
    [stage : {"waiting"}, path : {"/chat"}, session_id : {NoSessionId, 1},
     message : {"Hello"}, session : {0}, handle : {NoCollection}, status : {0}]
    \cup
    [stage : {"waiting"}, path : {"/refresh_knowledge"},
     session_id : {NoSessionId}, message : {None}, session : {0},
     handle : {NoCollection}, status : {0}]

\* requests are numbered by what they ask for: the order in which they are
\* served is the order in which the event loop picks them
Rank(req) ==
    IF req.path = "/refresh_knowledge" THEN 2
    ELSE IF req.session_id = NoSessionId THEN 0 ELSE 1

\* the server has started; every request is waiting for the event loop
InitServer ==
    /\ folder = <<DocResume, DocBio>>
    /\ NothingBuilt
    /\ loop = 0
    /\ http \in { h \in [Requests -> WaitingRequests] :
                     \A r \in Requests :
                         r + 1 \in Requests => Rank(h[r]) <= Rank(h[r + 1]) }
    /\ ChunkerIdle

\* the handler of r is running and has its engine
Handling(r) == loop = r /\ http[r].stage = "handling"

\* the handler of r is running PortfolioChatBot(...) for a new session
Constructing(r) == loop = r /\ http[r].stage = "constructing"

\* a handler run in a worker thread: it starts while another one is running
AcceptThreaded(r) ==
    /\ http[r].stage = "waiting"
    /\ http[r].path = "/chat"
    /\ clock + 2 <= MaxClock
    /\ LET sid == http[r].session_id
       IN IF sid # NoSessionId /\ sid \in chat_sessions
          THEN http' = [http EXCEPT ![r].stage = "handling", ![r].session = sid]
          ELSE /\ Cardinality(chat_sessions) < MaxSessions
               /\ http' = [http EXCEPT
                              ![r].stage = "constructing",
                              ![r].session = Cardinality(chat_sessions) + 1]
    /\ loop' = r
    /\ UNCHANGED <<chat_sessions, kbVars, chatVars, chunkVars>>

\* the event loop, running no handler, starts the async handler of r, which
\* runs get_or_create_session up to the lookup of the session id
Accept(r) ==
    /\ loop = 0
    /\ http[r].stage = "waiting"
    /\ http[r].path = "/chat"
    /\ clock + 2 <= MaxClock
    /\ LET sid == http[r].session_id
       IN IF sid # NoSessionId /\ sid \in chat_sessions
          THEN http' = [http EXCEPT ![r].stage = "handling", ![r].session = sid]
          ELSE /\ Cardinality(chat_sessions) < MaxSessions
               /\ http' = [http EXCEPT
                              ![r].stage = "constructing",
                              ![r].session = Cardinality(chat_sessions) + 1]
    /\ loop' = r
    /\ UNCHANGED <<chat_sessions, kbVars, chatVars, chunkVars>>

\* PortfolioChatBot.__init__ has built its knowledge base:
\* get_or_create_session stores the engine under the new session id
Register(r) ==
    /\ Constructing(r)
    /\ LET s == http[r].session
       IN /\ kb_pc[s] = "idle"
          /\ ~kb_error[s]
          /\ chat_sessions' = chat_sessions \cup {s}
          /\ conversation_history' = [conversation_history EXCEPT ![s] = <<>>]
          /\ system_prompt' = [system_prompt EXCEPT ![s] = SYSTEM_PROMPT]
    /\ http' = [http EXCEPT ![r].stage = "handling"]
    /\ UNCHANGED <<loop, kbVars, frame, wire, outcome, recent, clock, chunkVars>>

\* the constructor raised: the handler answers 500 and the engine is dropped
ConstructFails(r) ==
    /\ Constructing(r)
    /\ LET s == http[r].session
       IN /\ kb_pc[s] = "idle"
          /\ kb_error[s]
          /\ kb_pc' = [kb_pc EXCEPT ![s] = "none"]
          /\ kb_error' = [kb_error EXCEPT ![s] = FALSE]
          /\ collection' = [collection EXCEPT ![s] = NoCollection]
    /\ http' = [http EXCEPT ![r].stage = "done", ![r].status = 500]
    /\ loop' = 0
    /\ UNCHANGED <<chat_sessions, live, content, next_id, folder, old_entries,
                   last_query, chatVars, chunkVars>>

\* bot.chat has returned or raised: the handler answers and the event loop
\* is free again; the locals of the call are gone
Respond(r) ==
    /\ Handling(r)
    /\ LET s == http[r].session
       IN /\ frame[s].pc = "idle"
          /\ outcome[s].kind # "none"
          /\ http' = [http EXCEPT ![r].stage = "done",
                                  ![r].status = outcome[s].status]
          /\ frame' = [frame EXCEPT ![s] = IdleFrame]
          /\ wire' = [wire EXCEPT ![s] = NoWire]
          /\ outcome' = [outcome EXCEPT ![s] = NoOutcome]
    /\ loop' = 0
    /\ UNCHANGED <<chat_sessions, conversation_history, system_prompt, recent,
                   clock, kbVars, chunkVars>>

\* the handler of r is in the loop of refresh_knowledge, at the engine of
\* session http[r].session, whose handle was http[r].handle when the loop
\* reached it
Refreshing(r) == loop = r /\ http[r].stage = "refreshing"

\* the event loop, running no handler, starts the /refresh_knowledge handler
\* of r: chat_sessions.values() yields the engines in the order of insertion
RefreshKnowledge(r) ==
    /\ loop = 0
    /\ http[r].stage = "waiting"
    /\ http[r].path = "/refresh_knowledge"
    /\ IF chat_sessions = {}
       THEN /\ http' = [http EXCEPT ![r].stage = "done", ![r].status = 200]
            /\ loop' = 0
       ELSE /\ http' = [http EXCEPT ![r].stage = "refreshing",
                                    ![r].session = 1,
                                    ![r].handle = collection[1]]
            /\ loop' = r
    /\ UNCHANGED <<chat_sessions, kbVars, chatVars, chunkVars>>

\* bot.refresh_knowledge() has returned: the loop moves to the next engine,
\* and after the last one the handler answers 200
RefreshNext(r) ==
    /\ Refreshing(r)
    /\ LET s == http[r].session
       IN /\ kb_pc[s] = "idle"
          /\ collection[s] # http[r].handle
          /\ ~kb_error[s]
          /\ IF s + 1 \in chat_sessions
             THEN /\ http' = [http EXCEPT ![r].session = s + 1,
                                          ![r].handle = collection[s + 1]]
                  /\ loop' = loop
             ELSE /\ http' = [http EXCEPT ![r].stage = "done",
                                          ![r].status = 200]
                  /\ loop' = 0
    /\ UNCHANGED <<chat_sessions, kbVars, chatVars, chunkVars>>

\* bot.refresh_knowledge() has raised: the handler answers 500 and the
\* engines after this one are not refreshed
RefreshRaises(r) ==
    /\ Refreshing(r)
    /\ LET s == http[r].session
       IN /\ kb_pc[s] = "idle"
          /\ collection[s] # http[r].handle
          /\ kb_error[s]
    /\ http' = [http EXCEPT ![r].stage = "done", ![r].status = 500]
    /\ loop' = 0
    /\ UNCHANGED <<chat_sessions, kbVars, chatVars, chunkVars>>

\* the /chat and /refresh_knowledge handlers, step by step, on the one event
\* loop of the server
NextServer ==
    \/ \E r \in Requests : Accept(r)
    \/ \E r \in Requests : Constructing(r) /\ KBInit(http[r].session)
    \/ \E r \in Requests, ok \in BOOLEAN :
          Constructing(r) /\ LoadDocuments(http[r].session, ok)
    \/ \E r \in Requests : Register(r)
    \/ \E r \in Requests : ConstructFails(r)
    \/ \E r \in Requests :
          /\ Handling(r)
          /\ outcome[http[r].session].kind = "none"
          /\ Chat(http[r].session, http[r].message)
    \/ \E r \in Requests : Handling(r) /\ Round1Fails(http[r].session)
    \/ \E r \in Requests, reply \in Replies :
          Handling(r) /\ Round1Direct(http[r].session, reply)
    \/ \E r \in Requests, reply \in Replies :
          Handling(r) /\ Round1BadCall(http[r].session, reply)
    \/ \E r \in Requests, reply \in Replies, fails \in BOOLEAN :
          Handling(r) /\ Round1ToolCall(http[r].session, reply, fails)
    \/ \E r \in Requests : Handling(r) /\ Round2Fails(http[r].session)
    \/ \E r \in Requests, c \in Contents :
          Handling(r) /\ Round2Reply(http[r].session, c)
    \/ \E r \in Requests : Respond(r)
    \/ \E r \in Requests : RefreshKnowledge(r)
    \/ \E r \in Requests :
          /\ Refreshing(r)
          /\ collection[http[r].session] = http[r].handle
          /\ RefreshDelete(http[r].session)
    \/ \E r \in Requests : Refreshing(r) /\ RefreshCreate(http[r].session)
    \/ \E r \in Requests, ok \in BOOLEAN :
          Refreshing(r) /\ LoadDocuments(http[r].session, ok)
    \/ \E r \in Requests : RefreshNext(r)
    \/ \E r \in Requests : RefreshRaises(r)

SpecServer == InitServer /\ [][NextServer]_vars

\* ------------------------------------------------------------ _chunk_text
\* the calls of _chunk_text: the default parameters on texts of up to
\* MaxWords words, small parameters (overlap below, at and above chunk_size)
\* on short texts
ChunkCalls ==
    { [text |-> Text(n, gap), chunk_size |-> CHUNK_SIZE, overlap |-> OVERLAP] :
          n \in 0 .. MaxWords, gap \in {1, 2} }
    \cup
    { [text |-> Text(n, gap), chunk_size |-> cs, overlap |-> ov] :
          n \in 0 .. MaxShortWords, gap \in {1, 2},
          cs \in 1 .. MaxChunkSize, ov \in 0 .. MaxOverlap }

InitChunk ==
    /\ folder = <<>>
    /\ NothingBuilt
    /\ ServerIdle
    /\ chunk_args \in ChunkCalls
    /\ chunk_ret = NoChunkRet

\* a call _chunk_text(text, chunk_size, overlap) raises ValueError
ChunkTextRaise ==
    /\ chunk_ret.state = "none"
    /\ ChunkRaises(chunk_args.chunk_size, chunk_args.overlap)
    /\ chunk_ret' = [state |-> "raised", chunks |-> <<>>]
    /\ UNCHANGED <<chunk_args, serverVars, kbVars, chatVars>>

\* a call _chunk_text(text, chunk_size, overlap) returns its chunks
ChunkTextReturn ==
    /\ chunk_ret.state = "none"
    /\ ~ChunkRaises(chunk_args.chunk_size, chunk_args.overlap)
    /\ chunk_ret' = [state |-> "returned",
                     chunks |-> ChunkText(chunk_args.text, chunk_args.chunk_size,
                                          chunk_args.overlap)]
    /\ UNCHANGED <<chunk_args, serverVars, kbVars, chatVars>>

NextChunk == ChunkTextRaise \/ ChunkTextReturn

SpecChunk == InitChunk /\ [][NextChunk]_vars

\* ================================================================ claims
\* the last operation on the engine of s was chat and it has ended
Done(s) == frame[s].pc = "idle" /\ recent[s].last = "chat"
ReturnedOk(s) == Done(s) /\ outcome[s].kind = "return"
Last(seq) == seq[Len(seq)]
FirstCall(s) == wire[s].responses[1].tool_calls[1]
RequestedTool(s) ==
    Len(wire[s].responses) >= 1 /\ wire[s].responses[1].tool_calls # <<>>

\* C1: a search made while refresh_knowledge_base is rebuilding an index
\* whose old content was non-empty sees either the complete old entries or
\* the complete new entries.
C1_RebuildAtomic ==
    (/\ last_query.top_k > 0
     /\ ~last_query.failed
     /\ Rebuilding
     /\ old_entries # <<>>)
    => \/ last_query.seen = old_entries
       \/ last_query.seen = CollectBatch(folder, 0)

\* C2: a chat call that returns leaves history equal to the history before
\* the call plus a user message carrying user_message and an assistant
\* message carrying the returned answer; nothing earlier changes and no
\* tool message is stored.
C2_TurnAppendsTwo ==
    \A s \in Sessions :
        ReturnedOk(s) =>
            LET h == conversation_history[s]
                n == Len(frame[s].before)
            IN /\ Len(h) = n + 2
               /\ SubSeq(h, 1, n) = frame[s].before
               /\ h[n + 1].role = "user"
               /\ h[n + 1].content = frame[s].user_message
               /\ h[n + 2].role = "assistant"
               /\ h[n + 2].content = outcome[s].value
               /\ \A i \in 1 .. Len(h) :
                     /\ h[i].role \in {"user", "assistant"}
                     /\ DOMAIN h[i] = {"role", "content", "timestamp"}

C2_Witness ==
    \E s \in Sessions :
        /\ ReturnedOk(s)
        /\ Len(wire[s].requests) = 2
        /\ Len(frame[s].before) > 0
        /\ outcome[s].value # wire[s].responses[1].content

\* C3: the round-1 request is the system prompt followed by the last
\* min(10, length) messages of history in order, the new user message last,
\* so at most 10 history messages are sent, and the stored history keeps
\* every earlier message.
C3_HistoryWindow ==
    \A s \in Sessions :
        frame[s].pc = "round1" =>
            LET h == conversation_history[s]
                n == Min(10, Len(h))
                req == wire[s].requests[1].messages
            IN /\ Len(wire[s].requests) = 1
               /\ Len(req) = n + 1
               /\ Len(req) - 1 <= 10
               /\ req[1] = [role |-> "system", content |-> system_prompt[s]]
               /\ \A i \in 1 .. n :
                     req[i + 1] = [role |-> h[Len(h) - n + i].role,
                                   content |-> h[Len(h) - n + i].content]
               /\ Last(req) = [role |-> "user", content |-> frame[s].user_message]
               /\ Len(h) = Len(frame[s].before) + 1
               /\ SubSeq(h, 1, Len(h) - 1) = frame[s].before

C3_Witness ==
    \E s \in Sessions :
        /\ frame[s].pc = "round1"
        /\ Len(conversation_history[s]) = 31
        /\ Len(wire[s].requests[1].messages) = 11

\* C4: when round 2 has been issued, round 1 requested a tool call, the
\* tool ran before round 2 was sent, the round-2 context is the round-1
\* context followed by the assistant tool-call message and the tool message
\* carrying the serialized result, round 2 declares no tools, and the value
\* chat returns is the round-2 content.
C4_ToolPathOrder ==
    \A s \in Sessions :
        Len(wire[s].requests) = 2 =>
            LET r1 == wire[s].requests[1]
                r2 == wire[s].requests[2]
                tr == wire[s].trace
                k == Len(r1.messages)
            IN /\ RequestedTool(s)
               /\ Len(tr) >= 3
               /\ tr[1] = "model"
               /\ tr[2] = "execute"
               /\ \A i \in 3 .. Len(tr) - 1 : tr[i] = "search"
               /\ Last(tr) = "model"
               /\ r1.tools = <<SEARCH_TOOL>>
               /\ r2.tools = <<>>
               /\ Len(r2.messages) = k + 2
               /\ SubSeq(r2.messages, 1, k) = r1.messages
               /\ r2.messages[k + 1] =
                     [role |-> "assistant",
                      content |-> wire[s].responses[1].content,
                      tool_calls |->
                         << [id |-> FirstCall(s).id, type |-> "function",
                             function |->
                                [name |-> FirstCall(s).name,
                                 arguments |-> Dumps(Loads(FirstCall(s).arguments))]] >>]
               /\ r2.messages[k + 2] =
                     [role |-> "tool", tool_call_id |-> FirstCall(s).id,
                      content |-> DumpsResult(frame[s].function_result)]
               /\ (frame[s].pc = "idle" /\ outcome[s].kind = "return") =>
                     /\ Len(wire[s].responses) = 2
                     /\ outcome[s].value = wire[s].responses[2].content

C4_Witness ==
    \E s \in Sessions :
        /\ ReturnedOk(s)
        /\ Len(wire[s].requests) = 2
        /\ wire[s].queries # <<>>
        /\ "success" \in DOMAIN frame[s].function_result
        /\ frame[s].function_result.success
        /\ outcome[s].value = "Hi there!"

\* C5: when round 1 requests no tool call, the turn makes exactly one
\* model-service call, runs no tool and no index query, and returns the
\* round-1 content.
C5_DirectAnswer ==
    \A s \in Sessions :
        (/\ frame[s].pc = "idle"
         /\ Len(wire[s].responses) >= 1
         /\ wire[s].responses[1].tool_calls = <<>>)
        => /\ outcome[s].kind = "return"
           /\ Len(wire[s].requests) = 1
           /\ Len(wire[s].responses) = 1
           /\ wire[s].trace = <<"model">>
           /\ wire[s].queries = <<>>
           /\ outcome[s].value = wire[s].responses[1].content

C5_Witness ==
    \E s \in Sessions :
        /\ Done(s)
        /\ Len(wire[s].responses) = 1
        /\ wire[s].responses[1].tool_calls = <<>>
        /\ outcome[s].value = "Hi there!"
        /\ content # <<>>

\* C6: after reset_conversation history is empty and system_prompt is what
\* it was, and the round-1 context of the next chat call is the system
\* prompt and the new user message only.
C6_Reset ==
    \A s \in Sessions :
        /\ recent[s].last = "reset" =>
              /\ conversation_history[s] = <<>>
              /\ system_prompt[s] = SYSTEM_PROMPT
        /\ (recent[s].prev = "reset" /\ recent[s].last = "chat") =>
              wire[s].requests[1].messages =
                 << [role |-> "system", content |-> SYSTEM_PROMPT],
                    [role |-> "user", content |-> frame[s].user_message] >>

C6_Witness ==
    \E s \in Sessions :
        /\ recent[s].prev = "reset"
        /\ recent[s].last = "chat"
        /\ recent[s].dropped >= 30
        /\ frame[s].pc = "round1"

\* C7: search never raises; on an index with zero entries and on a failing
\* vector-store query it returns the empty sequence.
C7_SearchNeverRaises ==
    /\ ~last_query.raised
    /\ (/\ last_query.top_k > 0
        /\ \/ last_query.failed
           \/ ~last_query.stale /\ content = <<>>)
       => last_query.results = <<>>

C7_Witness ==
    /\ last_query.top_k > 0
    /\ last_query.failed
    /\ ~last_query.stale
    /\ content # <<>>
    /\ last_query.results = <<>>

\* C8: a tool call naming an unknown function yields the descriptor
\* {error: "Unknown function: <name>"} without raising and without an index
\* query; the descriptor is the tool message of the round-2 request and the
\* turn ends with the round-2 answer.
C8_UnknownTool ==
    \A s \in Sessions :
        (/\ RequestedTool(s)
         /\ FirstCall(s).name # SEARCH_TOOL
         /\ ~LoadsRaises(FirstCall(s).arguments))
        => LET descriptor == [error |-> "Unknown function: " \o FirstCall(s).name]
           IN /\ frame[s].function_result = descriptor
              /\ wire[s].queries = <<>>
              /\ wire[s].trace \in {<<"model", "execute", "model">>}
              /\ Len(wire[s].requests) = 2
              /\ Last(wire[s].requests[2].messages) =
                    [role |-> "tool", tool_call_id |-> FirstCall(s).id,
                     content |-> DumpsResult(descriptor)]
              /\ outcome[s].kind = "raise" => outcome[s].value = "ModelServiceFailure"
              /\ (frame[s].pc = "idle" /\ Len(wire[s].responses) = 2) =>
                    /\ outcome[s].kind = "return"
                    /\ outcome[s].value = wire[s].responses[2].content

C8_Witness ==
    \E s \in Sessions :
        /\ ReturnedOk(s)
        /\ RequestedTool(s)
        /\ FirstCall(s).name = "get_weather"
        /\ Len(wire[s].responses) = 2
        /\ outcome[s].value = "Hi there!"

\* C9: when the model service fails in round 1 or round 2, chat raises one
\* error, no answer is returned and no assistant message is appended: history
\* is the history before the call plus the user message.
C9_ModelFailure ==
    \A s \in Sessions :
        (Done(s) /\ Len(wire[s].requests) > Len(wire[s].responses)) =>
            LET h == conversation_history[s]
                n == Len(frame[s].before)
            IN /\ outcome[s] = [kind |-> "raise", value |-> "ModelServiceFailure",
                                status |-> 500, response |-> None]
               /\ Len(h) = n + 1
               /\ SubSeq(h, 1, n) = frame[s].before
               /\ h[n + 1].role = "user"
               /\ h[n + 1].content = frame[s].user_message

C9_Witness ==
    \E s \in Sessions :
        /\ Done(s)
        /\ Len(wire[s].requests) = 2
        /\ Len(wire[s].responses) = 1
        /\ outcome[s].kind = "raise"

\* C10: when the final content of the model is null or empty, chat returns
\* the empty string, stores an assistant message with empty-string content,
\* and neither chat nor the /chat handler raises.
C10_NullContentIsEmptyString ==
    \A s \in Sessions :
        (ReturnedOk(s) /\ Last(wire[s].responses).content \in {None, ""}) =>
            /\ outcome[s].value = ""
            /\ Last(conversation_history[s]).content = ""
            /\ outcome[s].status = 200

\* C12: _execute_function("search_knowledge_base", {query}) queries the index
\* once with that query and top_k = 3; the result has success = true exactly
\* when the query returned at least one result, then with num_results the
\* number of results (at most 3) and sources their sources in result order;
\* with no result it has success = false, a message and no context.
C12_ToolResultMapping ==
    \A s \in Sessions :
        (RequestedTool(s) /\ frame[s].function_name = SEARCH_TOOL) =>
            LET res == frame[s].results
                fr == frame[s].function_result
                q == Loads(FirstCall(s).arguments).query
                hits == Nearest(content, <<q>>, 3)
            IN /\ wire[s].queries = << [query |-> q, top_k |-> 3] >>
               /\ \/ res = <<>>
                  \/ /\ Len(res) = Min(3, Len(content))
                     /\ \A i \in 1 .. Len(res) :
                           /\ res[i].content = hits[i].document
                           /\ res[i].source = hits[i].metadata.source
               /\ fr.success = (Len(res) >= 1)
               /\ res # <<>> =>
                     /\ DOMAIN fr = {"success", "context", "sources", "num_results"}
                     /\ fr.num_results = Len(res)
                     /\ fr.num_results <= 3
                     /\ fr.sources = [i \in 1 .. Len(res) |-> res[i].source]
               /\ res = <<>> =>
                     /\ DOMAIN fr = {"success", "message"}
                     /\ fr.message # ""

\* four entries in the index: the three nearest are reported, nearest first
C12_Witness ==
    \E s \in Sessions :
        /\ frame[s].pc = "round2"
        /\ Len(content) = 4
        /\ "success" \in DOMAIN frame[s].function_result
        /\ frame[s].function_result.success
        /\ frame[s].function_result.num_results = 3
        /\ frame[s].function_result.sources = <<"bio.md", "bio.md", "resume.txt">>

\* how many times the turn of s called _execute_function
Executions(s) ==
    Cardinality({ i \in 1 .. Len(wire[s].trace) : wire[s].trace[i] = "execute" })

\* the first requested call carries arguments chat cannot use
FirstCallRejected(s) ==
    \/ LoadsRaises(FirstCall(s).arguments)
    \/ ExecuteRaises(FirstCall(s).name, Loads(FirstCall(s).arguments))

\* only the first requested call reaches the index and the round-2 context
OnlyFirstCall(s) ==
    /\ Executions(s) <= 1
    /\ Len(wire[s].queries) <= 1
    /\ \A i \in 1 .. Len(wire[s].queries) :
          /\ FirstCall(s).name = SEARCH_TOOL
          /\ wire[s].queries[i].query = Loads(FirstCall(s).arguments).query
    /\ \A k \in 2 .. Len(wire[s].requests) :
          \A i \in 1 .. Len(wire[s].requests[k].messages) :
              LET m == wire[s].requests[k].messages[i]
              IN /\ "tool_calls" \in DOMAIN m =>
                       /\ Len(m.tool_calls) = 1
                       /\ m.tool_calls[1].id = FirstCall(s).id
                       /\ m.tool_calls[1].function.name = FirstCall(s).name
                 /\ "tool_call_id" \in DOMAIN m => m.tool_call_id = FirstCall(s).id

\* C18 as stated: for any round-1 response requesting n >= 1 tool calls, the
\* turn executes only the first requested call, exactly once, and makes
\* exactly two model-service calls; the other n - 1 calls are never executed
\* and are absent from the round-2 context.
C18_SingleToolCall ==
    \A s \in Sessions :
        (Done(s) /\ RequestedTool(s)) =>
            /\ OnlyFirstCall(s)
            /\ Executions(s) = 1
            /\ Len(wire[s].requests) = 2

\* C18, amended: the same for a round-1 response whose first call carries
\* arguments that parse and that the tool accepts; when they do not, chat
\* raises after its single round-1 call having executed the first call at
\* most once; in both cases the other n - 1 calls are never executed and are
\* absent from the round-2 context.
C18_SingleToolCallParsed ==
    \A s \in Sessions :
        RequestedTool(s) =>
            /\ OnlyFirstCall(s)
            /\ ~FirstCallRejected(s) =>
                  /\ Executions(s) = 1
                  /\ Len(wire[s].requests) = 2
                  /\ frame[s].function_name = FirstCall(s).name
            /\ FirstCallRejected(s) =>
                  /\ Len(wire[s].requests) = 1
                  /\ outcome[s].kind = "raise"
                  /\ outcome[s].value \in {"JSONDecodeError", "KeyError"}

\* two calls requested: only the first query reaches the index, two model
\* calls are made and the turn returns
C18_Witness ==
    \E s \in Sessions :
        /\ ReturnedOk(s)
        /\ Len(wire[s].responses[1].tool_calls) = 2
        /\ wire[s].responses[1].tool_calls[2].arguments = ARGS_XYZ
        /\ wire[s].queries = << [query |-> "skills", top_k |-> TOP_K] >>
        /\ Len(wire[s].requests) = 2
        /\ Executions(s) = 1

\* C13: a build inserts the chunks of all non-empty documents in one batch:
\* a step of _load_documents either adds every chunk of the build to the
\* collection it created and ends without error, or adds none of them and
\* its failure reaches the caller of the build or rebuild.
C13_AllOrNothing ==
    [][\A s \in Sessions :
          (kb_pc[s] \in {"init_created", "refresh_created"} /\ kb_pc'[s] = "idle") =>
              LET batch == CollectBatch(folder, 0)
              IN \/ /\ ~kb_error'[s]
                    /\ content' = content \o batch
                    /\ batch # <<>> => collection[s] = live /\ content' = batch
                 \/ /\ kb_error'[s]
                    /\ batch # <<>>
                    /\ content' = content
                    /\ \A i \in 1 .. Len(batch) : collection[s] = live =>
                          \A j \in 1 .. Len(content') : content'[j] # batch[i]]_vars

\* an embedding failure during a rebuild: the fresh collection stays empty
\* and the caller has the error
C13_Witness ==
    \E s \in Sessions :
        /\ kb_pc[s] = "idle"
        /\ kb_error[s]
        /\ collection[s] = live
        /\ content = <<>>
        /\ old_entries # <<>>
        /\ Len(CollectBatch(folder, 0)) >= 2

\* C19: search returns at most top_k results, ordered by non-increasing
\* relevance_score.
C19_ResultShape ==
    last_query.top_k > 0 =>
        /\ Len(last_query.results) <= last_query.top_k
        /\ \A i, j \in 1 .. Len(last_query.results) :
              i < j => last_query.results[i].relevance_score
                           >= last_query.results[j].relevance_score

\* three entries, top_k 2: the two nearest, which are not the first two
C19_Witness ==
    /\ last_query.top_k = 2
    /\ Len(last_query.seen) = 3
    /\ Len(last_query.results) = 2
    /\ last_query.results[1].source = "hobby.txt"
    /\ last_query.results[2].source = "bio.md"
    /\ last_query.results[1].relevance_score > last_query.results[2].relevance_score

\* C20: every relevance_score search reports lies within [0, 1], whatever
\* distance the backend returns.
C20_RelevanceRange ==
    \A i \in 1 .. Len(last_query.results) :
        /\ last_query.results[i].relevance_score >= 0
        /\ last_query.results[i].relevance_score <= SCALE

\* C17: the chunks one build collects from a folder all have different ids,
\* also when files share a stem, when stems contain "_chunk_" or digits and
\* when empty files are skipped; so the ids in the index are all different.
C17_UniqueIds ==
    LET batch == CollectBatch(folder, 0)
    IN /\ \A i, j \in 1 .. Len(batch) : i # j => batch[i].id # batch[j].id
       /\ \A i, j \in 1 .. Len(content) : i # j => content[i].id # content[j].id

\* a.txt (two chunks), the empty a.pdf, a.md and a_chunk_0.txt in one build
C17_Witness ==
    /\ Len(folder) = 4
    /\ [i \in 1 .. 4 |-> folder[i].stem \o folder[i].suffix] =
          <<"a.txt", "a.pdf", "a.md", "a_chunk_0.txt">>
    /\ [i \in 1 .. Len(content) |-> content[i].id] =
          <<"a_chunk_0_0", "a_chunk_0_1", "a_chunk_1_0", "a_chunk_0_chunk_2_0">>

\* the handler of request r has started and not yet answered
Handled(r) == http[r].stage \in {"constructing", "handling"}

\* request r is inside bot.chat: the user message is appended, the
\* assistant message not yet
InTurn(r) == http[r].stage = "handling" /\ frame[http[r].session].pc # "idle"

\* C14: whatever the order in which the server takes up concurrent /chat
\* requests, an engine has at most one chat() turn in flight: no handler
\* starts on a session while another handler holds it, and a turn in flight
\* belongs to the one handler the event loop is running.
C14_OneTurnPerSession ==
    \A s \in Sessions :
        /\ Cardinality({ r \in Requests : Handled(r) /\ http[r].session = s }) <= 1
        /\ Cardinality({ r \in Requests : InTurn(r) /\ http[r].session = s }) <= 1
        /\ frame[s].pc # "idle" =>
              /\ loop \in Requests
              /\ InTurn(loop)
              /\ http[loop].session = s

\* a request naming session 1 waits while another request's turn on
\* session 1 is between its two model-service calls
C14_Witness ==
    \E r1, r2 \in Requests :
        /\ http[r1].stage = "waiting"
        /\ http[r1].session_id = 1
        /\ InTurn(r2)
        /\ http[r2].session = 1
        /\ frame[1].pc = "round2"
        /\ 1 \in chat_sessions

\* C21: on one engine, under chat calls that return or fail at the model
\* service and reset_conversation calls, history holds only user and
\* assistant messages that strictly alternate starting with user, so no
\* context sent to the model holds two consecutive user messages.
C21_Alternation ==
    \A s \in chat_sessions :
        LET h == conversation_history[s]
        IN /\ \A i \in 1 .. Len(h) :
                 h[i].role = IF i % 2 = 1 THEN "user" ELSE "assistant"
           /\ \A k \in 1 .. Len(wire[s].requests) :
                 LET req == wire[s].requests[k].messages
                 IN \A i \in 1 .. Len(req) - 1 :
                       ~(req[i].role = "user" /\ req[i + 1].role = "user")

\* a /refresh_knowledge handler has answered 200 after refreshing the engines
\* of sessions 1 .. n, and the event loop runs no handler
RefreshedAll(r, n) ==
    /\ loop = 0
    /\ http[r].path = "/refresh_knowledge"
    /\ http[r].stage = "done"
    /\ http[r].status = 200
    /\ http[r].session = n

\* C22: after the /refresh_knowledge handler has completed over N >= 2
\* sessions, every session's collection handle names the live rebuilt
\* collection, and a search from any session over a non-empty index returns
\* the entries a search on the live collection returns, not an empty list.
C22_RefreshKeepsHandles ==
    \A r \in Requests, n \in Sessions :
        RefreshedAll(r, n) /\ n >= 2 =>
            \A s \in 1 .. n :
                /\ collection[s] = live
                /\ content # <<>> =>
                      \A q \in Queries :
                          LET found == Search(collection[s], live, content,
                                              FALSE, q, TOP_K).results
                          IN /\ found # <<>>
                             /\ found = Search(live, live, content,
                                               FALSE, q, TOP_K).results

\* ------------------------------------------------------------ chunker claims
\* the _chunk_text call has returned
Chunked == chunk_ret.state = "returned"

\* the number of words of the text the call was given
WordCount ==
    Cardinality({ j \in 1 .. Len(chunk_args.text) : chunk_args.text[j] # " " })

\* C11: with chunk_size 500 and overlap 50 a text of W words gives exactly
\* ceil(W / 450) chunks; a text without words gives none.
C11_ChunkCount ==
    (Chunked /\ chunk_args.chunk_size = 500 /\ chunk_args.overlap = 50) =>
        /\ Len(chunk_ret.chunks) = (WordCount + 449) \div 450
        /\ (WordCount = 0 => chunk_ret.chunks = <<>>)

\* 901 words, padded with extra whitespace, give three chunks
C11_Witness ==
    /\ Chunked
    /\ chunk_args.chunk_size = 500 /\ chunk_args.overlap = 50
    /\ chunk_args.text = Text(901, 2)
    /\ Len(chunk_ret.chunks) = 3

\* C15: for 0 <= overlap < chunk_size the k-th chunk (from 0) is the words at
\* positions k * step .. min(W, k * step + chunk_size) - 1, step = chunk_size -
\* overlap, joined by single spaces; so every word is in some chunk, order is
\* kept, and a word is repeated only in the overlap of consecutive chunks,
\* which is overlap words, fewer only when the text ends inside the window.
C15_ChunkWindows ==
    (Chunked /\ chunk_args.overlap < chunk_args.chunk_size) =>
        LET words == Split(chunk_args.text)
            chunks == chunk_ret.chunks
            W == WordCount
            cs == chunk_args.chunk_size
            ov == chunk_args.overlap
            step == cs - ov
            n == (W + step - 1) \div step
            Lo(k) == k * step + 1
            Hi(k) == Min(W, k * step + cs)
            Window(k) ==
                [j \in 1 .. 2 * (Hi(k) - Lo(k) + 1) - 1 |->
                    IF j % 2 = 1 THEN words[Lo(k) + (j - 1) \div 2] ELSE " "]
            Shared(a, b) == Words(chunks[a + 1]) \cap Words(chunks[b + 1])
        IN /\ Len(words) = W
           /\ Len(chunks) = n
           /\ \A k \in 0 .. n - 1 : chunks[k + 1] = Window(k)
           /\ UNION { Words(chunks[k]) : k \in 1 .. n } = Words(words)
           /\ \A k \in 0 .. n - 1 : Split(chunks[k + 1]) = SubSeq(words, Lo(k), Hi(k))
           /\ \A k \in 0 .. n - 2 :
                 /\ Cardinality(Shared(k, k + 1)) =
                       IF W >= k * step + cs THEN ov ELSE W - (k + 1) * step
                 /\ Cardinality(Shared(k, k + 1)) <= ov
           /\ \A a, b \in 0 .. n - 1 :
                 a < b => Shared(a, b) \subseteq Shared(a, a + 1)

\* five words, chunk_size 4, overlap 2: three chunks, the last overlap short
C15_Witness ==
    /\ Chunked
    /\ chunk_args = [text |-> Text(5, 2), chunk_size |-> 4, overlap |-> 2]
    /\ chunk_ret.chunks = << <<"w1", " ", "w2", " ", "w3", " ", "w4">>,
                             <<"w3", " ", "w4", " ", "w5">>,
                             <<"w5">> >>

\* C16: for overlap >= chunk_size _chunk_text guards the non-positive step:
\* it rejects the parameters with an error, or returns the chunks of an
\* overlap clamped below chunk_size.
C16_ChunkerGuard ==
    (chunk_ret.state # "none" /\ chunk_args.overlap >= chunk_args.chunk_size) =>
        \/ chunk_ret.state = "raised"
        \/ \E ov \in 0 .. chunk_args.chunk_size - 1 :
              chunk_ret.chunks =
                  ChunkText(chunk_args.text, chunk_args.chunk_size, ov)
====
